---- MODULE Spec2Model ----
(***************************************************************************)
(* The action-based input manager of lastor (src/src/input).               *)
(*                                                                         *)
(* Time is counted in whole milliseconds: the f32 seconds of the source    *)
(* (buffer_time 0.1, a 60 fps frame) become 100 and 16.  The pointer       *)
(* position, pointer delta and scroll delta fields are left out: no        *)
(* operation modelled here reads them.                                     *)
(***************************************************************************)
EXTENDS Integers, Sequences, FiniteSets, TLC

\* ------------------------------------------------------------------ bounds

\* update(dt) is called with dt = k * FrameDt, k in 0..MaxFrameSkip
MaxFrameSkip == 2
\* set_buffer_time(t) is called with t = k * FrameDt, k in 0..MaxBufferFrames
MaxBufferFrames == 2
\* add_binding is called only while the action's list is shorter than this
MaxBindings == 2
\* the elapsed-time observer saturates here (above every buffer_time in use)
ElapsedCap == 130
\* the scene holds at most this many entities, live and pending together
MaxEntities == 3

\* ---------------------------------------------------------- program constants

\* GameConfig::default().target_fps
target_fps == 60
\* InputManager::new(): buffer_time 0.1 s, in milliseconds
default_buffer_time == 100
\* one nominal frame, in milliseconds
FrameDt == 1000 \div target_fps

Dts == {k * FrameDt : k \in 0..MaxFrameSkip}
BufferTimes == {k * FrameDt : k \in 0..MaxBufferFrames}

\* ------------------------------------------------------------------ Action

MoveUp == <<"MoveUp", "">>
MoveDown == <<"MoveDown", "">>
MoveLeft == <<"MoveLeft", "">>
MoveRight == <<"MoveRight", "">>
Jump == <<"Jump", "">>
Attack == <<"Attack", "">>
Defend == <<"Defend", "">>
Interact == <<"Interact", "">>
Pause == <<"Pause", "">>
\* a mutant: a named action whose name is that of a well-known action is
\* that action (equality by name alone)
custom_by_name(name) == IF name = "Jump" THEN Jump ELSE <<"Custom", name>>

\* Action::custom(name)
custom(name) == <<"Custom", name>>

Sprint == custom("sprint")
\* Action::custom("Jump"), a named action called like a well-known one
CustomJump == custom("Jump")

\* the actions the model's callers name
Actions == {MoveUp, MoveDown, MoveLeft, MoveRight, Jump, Attack, Defend,
            Interact, Pause, Sprint, CustomJump}

\* no action argument (calls that take none)
NoAction == <<"", "">>

\* ------------------------------------------------------------ InputBinding

\* InputBinding::key(k)
key(k) == [kind |-> "Key", code |-> k, modifiers |-> <<>>]
\* InputBinding::key_with_modifier(k, m)
key_with_modifier(k, m) == [kind |-> "Key", code |-> k, modifiers |-> <<m>>]
\* KeyBinding::with_modifier(m) on the key binding inside `binding`
with_modifier(binding, m) ==
    [binding EXCEPT !.modifiers = Append(@, m)]
\* InputBinding::mouse(b)
mouse(b) == [kind |-> "Mouse", code |-> b, modifiers |-> <<>>]

\* the keys update_key_state polls that the model's device can hold down
all_keys == {"W", "A", "S", "D", "E", "X", "Z", "Space", "Escape",
             "LeftShift", "RightShift", "Up", "Down", "Left", "Right"}
\* the buttons update_mouse_state polls
buttons == {"Left", "Right", "Middle"}

VARIABLES
    bindings,                  \* HashMap<Action, Vec<InputBinding>>
    keys_pressed, keys_just_pressed, keys_just_released,
    mouse_pressed, mouse_just_pressed, mouse_just_released,
    actions_active, actions_just_activated, actions_just_deactivated,
    buffer_time,               \* milliseconds
    buffered_actions,          \* HashMap<Action, f32>: remaining milliseconds
    \* observers (not fields of the program)
    call,                      \* the last call made: [op, action, dt, list]
                               \*   (list: the bindings a bind_action or
                               \*   add_binding call was given, the entity
                               \*   an add_entity call was given, the pending
                               \*   entities a call of Scene::update or
                               \*   Scene::update_with_input found)
    ret,                       \* what the last call returned (FALSE for unit)
    prev_active,               \* actions_active as the last update found it
    poll,                      \* the last update's device sample, and the key
                               \*   and button sets as that update found them
    refreshed,                 \* actions whose last activation found them buffered
    since_first,               \* per buffered action: dt summed since the
                               \*   activation that created its entry (later
                               \*   ones refreshed it); -1 when not buffered
    elapsed,                   \* per action: dt summed since its last activation,
                               \*   -1 when never activated or consumed since
    act_time,                  \* per action: buffer_time at its last activation
    dirty,                     \* the table was mutated since the last update
    \* Scene
    entities,                  \* Vec<Box<dyn Entity>>: the live list
    entities_to_add,           \* Vec<Box<dyn Entity>>: the pending list
    should_clear_inactive,     \* bool
    \* observers of the scene
    updated,                   \* per entity: the dt values its update(dt) ran
                               \*   with in the last call of Scene::update or
                               \*   Scene::update_with_input (none or one)
    active_before,             \* the entities that were in the scene (live or
                               \*   pending) and active when the last
                               \*   Scene::update_with_input began
    stopped,                   \* the entities the entity loop of the last
                               \*   Scene::update or update_with_input left
                               \*   inactive
    asked                      \* clear_inactive was called since the last
                               \*   Scene::update or update_with_input

vars == <<bindings, keys_pressed, keys_just_pressed, keys_just_released,
          mouse_pressed, mouse_just_pressed, mouse_just_released,
          actions_active, actions_just_activated, actions_just_deactivated,
          buffer_time, buffered_actions,
          call, ret, prev_active, poll, refreshed, since_first, elapsed,
          act_time, dirty,
          entities, entities_to_add, should_clear_inactive,
          updated, active_before, stopped, asked>>

raw_vars == <<keys_pressed, keys_just_pressed, keys_just_released,
              mouse_pressed, mouse_just_pressed, mouse_just_released>>
action_vars == <<actions_active, actions_just_activated, actions_just_deactivated>>
observer_vars == <<prev_active, poll, refreshed, since_first, elapsed,
                   act_time>>
\* the fields of Scene (the camera is left out)
scene_vars == <<entities, entities_to_add, should_clear_inactive>>
scene_observer_vars == <<updated, active_before, stopped, asked>>

Min(a, b) == IF a < b THEN a ELSE b

\* the entities the model's callers box: an entity is told from the others
\* by id
EntityIds == 1..MaxEntities

\* HashMap::new()
EmptyMap == [a \in {} |-> 0]

\* ------------------------------------------------------------ construction

\* setup_default_bindings
default_bindings ==
    [a \in {MoveUp, MoveDown, MoveLeft, MoveRight, Jump, Attack, Defend,
            Interact, Pause} |->
        CASE a = MoveUp -> <<key("W"), key("Up")>>
          [] a = MoveDown -> <<key("S"), key("Down")>>
          [] a = MoveLeft -> <<key("A"), key("Left")>>
          [] a = MoveRight -> <<key("D"), key("Right")>>
          [] a = Jump -> <<key("Space")>>
          [] a = Attack -> <<mouse("Left"), key("X")>>
          [] a = Defend -> <<mouse("Right"), key("Z")>>
          [] a = Interact -> <<key("E")>>
          [] a = Pause -> <<key("Escape")>>]

\* InputManager::new
Init ==
    /\ bindings = default_bindings
    /\ keys_pressed = {} /\ keys_just_pressed = {} /\ keys_just_released = {}
    /\ mouse_pressed = {} /\ mouse_just_pressed = {} /\ mouse_just_released = {}
    /\ actions_active = {} /\ actions_just_activated = {}
    /\ actions_just_deactivated = {}
    /\ buffer_time = default_buffer_time
    /\ buffered_actions = EmptyMap
    /\ call = [op |-> "new", action |-> NoAction, dt |-> 0, list |-> <<>>]
    /\ ret = FALSE
    /\ prev_active = {}
    /\ poll = [keys_down |-> {}, buttons_down |-> {},
               keys_before |-> {}, buttons_before |-> {}]
    /\ refreshed = {}
    /\ since_first = [a \in Actions |-> -1]
    /\ elapsed = [a \in Actions |-> -1]
    /\ act_time = [a \in Actions |-> 0]
    /\ dirty = FALSE
    \* Scene::new
    /\ entities = <<>>
    /\ entities_to_add = <<>>
    /\ should_clear_inactive = FALSE
    /\ updated = [id \in EntityIds |-> <<>>]
    /\ active_before = {}
    /\ stopped = {}
    /\ asked = FALSE

\* ------------------------------------------------------------------ update

\* a mutant: the clear is missing
not_cleared(s) == s

\* HashSet::clear at the head of update
cleared(s) == {}

\* a mutant: a released key is reported but stays in keys_pressed
update_key_state_sticky(kp, jp, jr, down) ==
    LET pressed_now == {k \in all_keys : k \in down /\ k \notin kp}
        released_now == {k \in all_keys : k \notin down /\ k \in kp}
    IN  [pressed |-> kp \cup pressed_now,
         just_pressed |-> jp \cup pressed_now,
         just_released |-> jr \cup released_now]

\* a mutant: every key the device reports is taken, polled or not
update_key_state_any_key(kp, jp, jr, down) ==
    LET pressed_now == {k \in down : k \notin kp}
        released_now == {k \in kp : k \notin down}
    IN  [pressed |-> (kp \cup pressed_now) \ released_now,
         just_pressed |-> jp \cup pressed_now,
         just_released |-> jr \cup released_now]

\* a mutant: a key found newly down is not put into keys_just_pressed
update_key_state_no_press_edge(kp, jp, jr, down) ==
    LET pressed_now == {k \in all_keys : k \in down /\ k \notin kp}
        released_now == {k \in all_keys : k \notin down /\ k \in kp}
    IN  [pressed |-> (kp \cup pressed_now) \ released_now,
         just_pressed |-> jp,
         just_released |-> jr \cup released_now]

\* update_key_state: is_down(k) is k \in down.  The result is the three key
\* sets after the loop over all_keys; jp and jr are the sets as update left
\* them (cleared).
update_key_state(kp, jp, jr, down) ==
    LET pressed_now == {k \in all_keys : k \in down /\ k \notin kp}
        released_now == {k \in all_keys : k \notin down /\ k \in kp}
    IN  [pressed |-> (kp \cup pressed_now) \ released_now,
         just_pressed |-> jp \cup pressed_now,
         just_released |-> jr \cup released_now]

\* a mutant: a released button is reported but stays in mouse_pressed
update_mouse_state_sticky(mp, jp, jr, down) ==
    LET pressed_now == {b \in buttons : b \in down /\ b \notin mp}
        released_now == {b \in buttons : b \notin down /\ b \in mp}
    IN  [pressed |-> mp \cup pressed_now,
         just_pressed |-> jp \cup pressed_now,
         just_released |-> jr \cup released_now]

\* update_mouse_state, the button loop
update_mouse_state(mp, jp, jr, down) ==
    LET pressed_now == {b \in buttons : b \in down /\ b \notin mp}
        released_now == {b \in buttons : b \notin down /\ b \in mp}
    IN  [pressed |-> (mp \cup pressed_now) \ released_now,
         just_pressed |-> jp \cup pressed_now,
         just_released |-> jr \cup released_now]

\* a mutant: the loop over the modifiers is missing
is_binding_active_no_modifiers(binding, kp, mp) ==
    IF binding.kind = "Key" THEN binding.code \in kp ELSE binding.code \in mp

\* a mutant: the Mouse arm of the match answers false
is_binding_active_keys_only(binding, kp, mp) ==
    /\ binding.kind = "Key"
    /\ binding.code \in kp
    /\ \A i \in 1..Len(binding.modifiers) : binding.modifiers[i] \in kp

\* is_binding_active
is_binding_active(binding, kp, mp) ==
    IF binding.kind = "Key"
    THEN /\ binding.code \in kp
         /\ \A i \in 1..Len(binding.modifiers) : binding.modifiers[i] \in kp
    ELSE binding.code \in mp

\* a mutant: only the first binding of the list is looked at
first_binding_active(list, kp, mp) ==
    Len(list) > 0 /\ is_binding_active(list[1], kp, mp)

\* a mutant: all() where the source has any()
all_bindings_active(list, kp, mp) ==
    \A i \in 1..Len(list) : is_binding_active(list[i], kp, mp)

\* bindings.iter().any(|binding| self.is_binding_active(binding))
any_binding_active(list, kp, mp) ==
    \E i \in 1..Len(list) : is_binding_active(list[i], kp, mp)

\* a mutant: entry(a).or_insert(t), an entry already there is kept
insert_if_absent(buf, a, t) ==
    [x \in DOMAIN buf \cup {a} |->
        IF x = a /\ a \notin DOMAIN buf THEN t ELSE buf[x]]

\* a mutant: the entry is topped up instead of overwritten
insert_adding(buf, a, t) ==
    [x \in DOMAIN buf \cup {a} |->
        IF x = a THEN (IF a \in DOMAIN buf THEN buf[a] + t ELSE t) ELSE buf[x]]

\* HashMap::insert(a, t)
insert(buf, a, t) ==
    [x \in DOMAIN buf \cup {a} |-> IF x = a THEN t ELSE buf[x]]

\* a mutant: the new active set is merged into the old one
update_action_state_stale(bnd, act, buf, bt, kp, mp) ==
    LET on == {a \in DOMAIN bnd : any_binding_active(bnd[a], kp, mp)}
        ja == on \ act
    IN  [active |-> act \cup on,
         just_activated |-> ja,
         just_deactivated |-> {a \in DOMAIN bnd : a \notin on /\ a \in act},
         buffered |-> [x \in DOMAIN buf \cup ja |->
                          IF x \in ja THEN insert(buf, x, bt)[x] ELSE buf[x]]]

\* a mutant: the "was not active" test of the activation edge is missing
update_action_state_retrigger(bnd, act, buf, bt, kp, mp) ==
    LET on == {a \in DOMAIN bnd : any_binding_active(bnd[a], kp, mp)}
        ja == on
    IN  [active |-> on,
         just_activated |-> ja,
         just_deactivated |-> {a \in DOMAIN bnd : a \notin on /\ a \in act},
         buffered |-> [x \in DOMAIN buf \cup ja |->
                          IF x \in ja THEN insert(buf, x, bt)[x] ELSE buf[x]]]

\* a mutant: the loop over the table breaks at the first active action
update_action_state_first_only(bnd, act, buf, bt, kp, mp) ==
    LET all_on == {a \in DOMAIN bnd : any_binding_active(bnd[a], kp, mp)}
        on == IF all_on = {} THEN {} ELSE {CHOOSE a \in all_on : TRUE}
        ja == {a \in on : a \notin act}
    IN  [active |-> on,
         just_activated |-> ja,
         just_deactivated |-> {a \in DOMAIN bnd : a \notin on /\ a \in act},
         buffered |-> [x \in DOMAIN buf \cup ja |->
                          IF x \in ja THEN insert(buf, x, bt)[x] ELSE buf[x]]]

\* a mutant: a deactivation takes the action's entry out of the buffer
update_action_state_unbuffers(bnd, act, buf, bt, kp, mp) ==
    LET on == {a \in DOMAIN bnd : any_binding_active(bnd[a], kp, mp)}
        ja == {a \in on : a \notin act}
        jd == {a \in DOMAIN bnd : a \notin on /\ a \in act}
    IN  [active |-> on,
         just_activated |-> ja,
         just_deactivated |-> jd,
         buffered |-> [x \in (DOMAIN buf \ jd) \cup ja |->
                          IF x \in ja THEN insert(buf, x, bt)[x] ELSE buf[x]]]

\* a mutant: the loop skips the entries whose list is empty
update_action_state_skips_empty(bnd, act, buf, bt, kp, mp) ==
    LET on == {a \in DOMAIN bnd : any_binding_active(bnd[a], kp, mp)}
        ja == {a \in on : a \notin act}
    IN  [active |-> on,
         just_activated |-> ja,
         just_deactivated |->
             {a \in DOMAIN bnd : Len(bnd[a]) > 0 /\ a \notin on /\ a \in act},
         buffered |-> [x \in DOMAIN buf \cup ja |->
                          IF x \in ja THEN insert(buf, x, bt)[x] ELSE buf[x]]]

\* update_action_state: the loop runs over the entries of the table; each
\* entry touches only its own action, so the HashMap's iteration order does
\* not show.  act is actions_active as the previous update left it.
update_action_state(bnd, act, buf, bt, kp, mp) ==
    LET on == {a \in DOMAIN bnd : any_binding_active(bnd[a], kp, mp)}
        ja == {a \in on : a \notin act}
    IN  [active |-> on,
         just_activated |-> ja,
         just_deactivated |-> {a \in DOMAIN bnd : a \notin on /\ a \in act},
         buffered |-> [x \in DOMAIN buf \cup ja |->
                          IF x \in ja THEN insert(buf, x, bt)[x] ELSE buf[x]]]

\* a mutant: the subtraction is missing
update_input_buffer_no_decay(buf, dt) ==
    [a \in {x \in DOMAIN buf : buf[x] > 0} |-> buf[a]]

\* a mutant: >= where the source has >
update_input_buffer_keeps_zero(buf, dt) ==
    [a \in {x \in DOMAIN buf : buf[x] - dt >= 0} |-> buf[a] - dt]

\* a mutant: the entry is tested before the subtraction, not after
update_input_buffer_late(buf, dt) ==
    [a \in {x \in DOMAIN buf : buf[x] > 0} |-> buf[a] - dt]

\* a mutant: every update decays the buffer by one nominal frame, whatever dt
update_input_buffer_fixed_step(buf, dt) ==
    [a \in {x \in DOMAIN buf : buf[x] - FrameDt > 0} |-> buf[a] - FrameDt]

\* a mutant: += where the source has -=
update_input_buffer_grows(buf, dt) ==
    [a \in {x \in DOMAIN buf : buf[x] + dt > 0} |-> buf[a] + dt]

\* update_input_buffer: retain(|_, time_left| { *time_left -= dt; *time_left > 0.0 })
update_input_buffer(buf, dt) ==
    [a \in {x \in DOMAIN buf : buf[x] - dt > 0} |-> buf[a] - dt]

\* InputManager::update(dt), with the device holding the keys `down` and the
\* buttons `mdown` when it is polled.  k, m and s are the results of the three
\* update_* calls in the order of the source (each bound once); the buffer is
\* decayed last.
update(dt, down, mdown) ==
    \E k \in {update_key_state(keys_pressed, cleared(keys_just_pressed),
                              cleared(keys_just_released), down)} :
    \E m \in {update_mouse_state(mouse_pressed, cleared(mouse_just_pressed),
                                cleared(mouse_just_released), mdown)} :
    \E s \in {update_action_state(bindings, actions_active, buffered_actions,
                                 buffer_time, k.pressed, m.pressed)} :
    \E ja \in {cleared(actions_just_activated) \cup s.just_activated} :
    \E jd \in {cleared(actions_just_deactivated) \cup s.just_deactivated} :
        /\ keys_pressed' = k.pressed
        /\ keys_just_pressed' = k.just_pressed
        /\ keys_just_released' = k.just_released
        /\ mouse_pressed' = m.pressed
        /\ mouse_just_pressed' = m.just_pressed
        /\ mouse_just_released' = m.just_released
        /\ actions_active' = s.active
        /\ actions_just_activated' = ja
        /\ actions_just_deactivated' = jd
        /\ buffered_actions' = update_input_buffer(s.buffered, dt)
        /\ UNCHANGED <<scene_vars, scene_observer_vars>>
        /\ UNCHANGED <<bindings, buffer_time>>
        /\ call' = [op |-> "update", action |-> NoAction, dt |-> dt, list |-> <<>>]
        /\ ret' = FALSE
        /\ prev_active' = actions_active
        /\ poll' = [keys_down |-> down, buttons_down |-> mdown,
                    keys_before |-> keys_pressed,
                    buttons_before |-> mouse_pressed]
        /\ refreshed' = (refreshed \ s.just_activated)
                            \cup (s.just_activated \cap DOMAIN buffered_actions)
        /\ since_first' = [a \in Actions |->
                              IF a \notin DOMAIN buffered_actions' THEN -1
                              ELSE IF a \in s.just_activated
                                    /\ a \notin DOMAIN buffered_actions THEN dt
                              ELSE Min(since_first[a] + dt, ElapsedCap)]
        /\ elapsed' = [a \in Actions |->
                          IF a \in s.just_activated THEN dt
                          ELSE IF elapsed[a] < 0 THEN -1
                          ELSE Min(elapsed[a] + dt, ElapsedCap)]
        /\ act_time' = [a \in Actions |->
                           IF a \in s.just_activated THEN buffer_time
                           ELSE act_time[a]]
        /\ dirty' = FALSE

\* ---------------------------------------------------------------- queries

\* is_action_active
is_action_active(a) == a \in actions_active
\* is_action_just_activated
is_action_just_activated(a) == a \in actions_just_activated
\* is_action_just_deactivated
is_action_just_deactivated(a) == a \in actions_just_deactivated
\* is_action_buffered
is_action_buffered(a) == a \in DOMAIN buffered_actions

\* a call of is_action_buffered(a): &self, nothing is written
query_action_buffered(a) ==
    /\ call' = [op |-> "is_action_buffered", action |-> a, dt |-> 0, list |-> <<>>]
    /\ ret' = is_action_buffered(a)
    /\ UNCHANGED <<scene_vars, scene_observer_vars>>
    /\ UNCHANGED <<bindings, raw_vars, action_vars, buffer_time,
                   buffered_actions, observer_vars, dirty>>

\* a mutant: get() where the source has remove()
consume_buffered_action_peek(a) ==
    /\ ret' = (a \in DOMAIN buffered_actions)
    /\ buffered_actions' = buffered_actions
    /\ call' = [op |-> "consume_buffered_action", action |-> a, dt |-> 0, list |-> <<>>]
    /\ elapsed' = [elapsed EXCEPT ![a] = -1]
    /\ act_time' = [act_time EXCEPT ![a] = 0]
    /\ since_first' = [since_first EXCEPT ![a] = -1]
    /\ refreshed' = refreshed \ {a}
    /\ UNCHANGED <<scene_vars, scene_observer_vars>>
    /\ UNCHANGED <<bindings, raw_vars, action_vars, buffer_time,
                   prev_active, poll, dirty>>

\* a mutant: the answer is true whether or not there was an entry
consume_buffered_action_always(a) ==
    /\ ret' = TRUE
    /\ buffered_actions' =
           [x \in DOMAIN buffered_actions \ {a} |-> buffered_actions[x]]
    /\ call' = [op |-> "consume_buffered_action", action |-> a, dt |-> 0,
                 list |-> <<>>]
    /\ elapsed' = [elapsed EXCEPT ![a] = -1]
    /\ act_time' = [act_time EXCEPT ![a] = 0]
    /\ since_first' = [since_first EXCEPT ![a] = -1]
    /\ refreshed' = refreshed \ {a}
    /\ UNCHANGED <<scene_vars, scene_observer_vars>>
    /\ UNCHANGED <<bindings, raw_vars, action_vars, buffer_time,
                   prev_active, poll, dirty>>

\* consume_buffered_action: self.buffered_actions.remove(action).is_some()
consume_buffered_action(a) ==
    /\ ret' = (a \in DOMAIN buffered_actions)
    /\ buffered_actions' =
           [x \in DOMAIN buffered_actions \ {a} |-> buffered_actions[x]]
    /\ call' = [op |-> "consume_buffered_action", action |-> a, dt |-> 0, list |-> <<>>]
    /\ elapsed' = [elapsed EXCEPT ![a] = -1]
    /\ act_time' = [act_time EXCEPT ![a] = 0]
    /\ since_first' = [since_first EXCEPT ![a] = -1]
    /\ refreshed' = refreshed \ {a}
    /\ UNCHANGED <<scene_vars, scene_observer_vars>>
    /\ UNCHANGED <<bindings, raw_vars, action_vars, buffer_time,
                   prev_active, poll, dirty>>

\* ------------------------------------------------------ binding management

\* bind_action
bind_action(a, list) ==
    /\ bindings' = [x \in DOMAIN bindings \cup {a} |->
                       IF x = a THEN list ELSE bindings[x]]
    /\ call' = [op |-> "bind_action", action |-> a, dt |-> 0, list |-> list]
    /\ ret' = FALSE
    /\ dirty' = TRUE
    /\ UNCHANGED <<scene_vars, scene_observer_vars>>
    /\ UNCHANGED <<raw_vars, action_vars, buffer_time, buffered_actions,
                   observer_vars>>

\* a mutant: insert(action, vec![binding]), the list already there is dropped
add_binding_replaces(a, binding) ==
    /\ bindings' = [x \in DOMAIN bindings \cup {a} |->
                       IF x = a THEN <<binding>> ELSE bindings[x]]
    /\ call' = [op |-> "add_binding", action |-> a, dt |-> 0,
                 list |-> <<binding>>]
    /\ ret' = FALSE
    /\ dirty' = TRUE
    /\ UNCHANGED <<scene_vars, scene_observer_vars>>
    /\ UNCHANGED <<raw_vars, action_vars, buffer_time, buffered_actions,
                   observer_vars>>

\* add_binding: entry(action).or_insert_with(Vec::new).push(binding)
add_binding(a, binding) ==
    /\ bindings' = [x \in DOMAIN bindings \cup {a} |->
                       IF x = a
                       THEN Append(IF a \in DOMAIN bindings
                                   THEN bindings[a] ELSE <<>>, binding)
                       ELSE bindings[x]]
    /\ call' = [op |-> "add_binding", action |-> a, dt |-> 0,
                 list |-> <<binding>>]
    /\ ret' = FALSE
    /\ dirty' = TRUE
    /\ UNCHANGED <<scene_vars, scene_observer_vars>>
    /\ UNCHANGED <<raw_vars, action_vars, buffer_time, buffered_actions,
                   observer_vars>>

\* a mutant: unbinding also takes the action out of the active set
unbind_action_eager(a) ==
    /\ bindings' = [x \in DOMAIN bindings \ {a} |-> bindings[x]]
    /\ actions_active' = actions_active \ {a}
    /\ call' = [op |-> "unbind_action", action |-> a, dt |-> 0, list |-> <<>>]
    /\ ret' = FALSE
    /\ dirty' = TRUE
    /\ UNCHANGED <<scene_vars, scene_observer_vars>>
    /\ UNCHANGED <<raw_vars, actions_just_activated, actions_just_deactivated,
                   buffer_time, buffered_actions, observer_vars>>

\* unbind_action
unbind_action(a) ==
    /\ bindings' = [x \in DOMAIN bindings \ {a} |-> bindings[x]]
    /\ call' = [op |-> "unbind_action", action |-> a, dt |-> 0, list |-> <<>>]
    /\ ret' = FALSE
    /\ dirty' = TRUE
    /\ UNCHANGED <<scene_vars, scene_observer_vars>>
    /\ UNCHANGED <<raw_vars, action_vars, buffer_time, buffered_actions,
                   observer_vars>>

\* clear_bindings
clear_bindings ==
    /\ bindings' = EmptyMap
    /\ call' = [op |-> "clear_bindings", action |-> NoAction, dt |-> 0, list |-> <<>>]
    /\ ret' = FALSE
    /\ dirty' = TRUE
    /\ UNCHANGED <<scene_vars, scene_observer_vars>>
    /\ UNCHANGED <<raw_vars, action_vars, buffer_time, buffered_actions,
                   observer_vars>>

\* a mutant: the entries already buffered are cut down to the new time
set_buffer_time_rescale(t) ==
    /\ buffer_time' = t
    /\ buffered_actions' =
           [a \in {x \in DOMAIN buffered_actions :
                       Min(buffered_actions[x], t) > 0} |->
               Min(buffered_actions[a], t)]
    /\ call' = [op |-> "set_buffer_time", action |-> NoAction, dt |-> 0,
                 list |-> <<>>]
    /\ ret' = FALSE
    /\ UNCHANGED <<scene_vars, scene_observer_vars>>
    /\ UNCHANGED <<bindings, raw_vars, action_vars, observer_vars, dirty>>

\* set_buffer_time
set_buffer_time(t) ==
    /\ buffer_time' = t
    /\ call' = [op |-> "set_buffer_time", action |-> NoAction, dt |-> 0, list |-> <<>>]
    /\ ret' = FALSE
    /\ UNCHANGED <<scene_vars, scene_observer_vars>>
    /\ UNCHANGED <<bindings, raw_vars, action_vars, buffered_actions,
                   observer_vars, dirty>>

\* get_bindings: Option<&Vec<InputBinding>>, None as <<>> and Some(l) as <<l>>
get_bindings(a) == IF a \in DOMAIN bindings THEN <<bindings[a]>> ELSE <<>>

\* f32 1.0 as a fixed-point number: a Vec2 is [x, y] in units of 1/Unit
Unit == 1000

\* f32::sqrt on fixed-point numbers: the largest r with r * r <= n
isqrt(n) == CHOOSE r \in 0..(2 * Unit) : r * r <= n /\ (r + 1) * (r + 1) > n

\* Vec2::length
length(v) == isqrt(v.x * v.x + v.y * v.y)

\* a mutant: the vector is returned as it was summed
not_normalized(v) == v

\* Vec2::normalize: the vector times the reciprocal of its length
normalize(v) ==
    LET recip == (Unit * Unit) \div length(v)
    IN  [x |-> (v.x * recip) \div Unit, y |-> (v.y * recip) \div Unit]

\* a mutant: else-if per axis, the second action of a pair wins over the first
get_movement_input_exclusive ==
    LET movement ==
            [x |-> IF is_action_active(MoveRight) THEN Unit
                   ELSE IF is_action_active(MoveLeft) THEN 0 - Unit ELSE 0,
             y |-> IF is_action_active(MoveDown) THEN Unit
                   ELSE IF is_action_active(MoveUp) THEN 0 - Unit ELSE 0]
    IN  IF movement # [x |-> 0, y |-> 0] THEN normalize(movement)
        ELSE movement

\* get_movement_input
get_movement_input ==
    LET movement ==
            [x |-> (IF is_action_active(MoveLeft) THEN 0 - Unit ELSE 0)
                     + (IF is_action_active(MoveRight) THEN Unit ELSE 0),
             y |-> (IF is_action_active(MoveUp) THEN 0 - Unit ELSE 0)
                     + (IF is_action_active(MoveDown) THEN Unit ELSE 0)]
    IN  IF movement # [x |-> 0, y |-> 0] THEN normalize(movement)
        ELSE movement

\* the fields of InputManager
manager_vars ==
    <<bindings, raw_vars, action_vars, buffer_time, buffered_actions>>

\* -------------------------------------------------------------------- Scene
\* An entity is [id, active, calls_update]: active is what is_active()
\* returns; calls_update tells whether its update_with_input runs update(dt)
\* (the default of the trait does, and so does the Player of
\* examples/input_demo.rs; the TestPlayer of examples/debug_input.rs does
\* not).

\* the entities of a list, by id
id_set(list) == {list[i].id : i \in 1..Len(list)}
\* the ids of a list, in its order
ids(list) == [i \in 1..Len(list) |-> list[i].id]
\* the active entities of a list, by id
active_ids(list) == {list[i].id : i \in {j \in 1..Len(list) : list[j].active}}

\* Entity::is_active
is_active(e) == e.active

\* Entity::update(dt) and an overriding update_with_input are the entity's
\* own code, with &mut self: what they do to the entity is open, and here
\* they may leave it inactive.  stop holds the entities whose call does.
entity_update(e, stop) ==
    IF e.id \in stop THEN [e EXCEPT !.active = FALSE] ELSE e

\* the loop of Scene::update and of Scene::update_with_input:
\* for entity in &mut self.entities { if entity.is_active() { ... } }
entity_pass(list, stop) ==
    [i \in 1..Len(list) |->
        IF is_active(list[i]) THEN entity_update(list[i], stop) ELSE list[i]]

\* self.entities.retain(|entity| entity.is_active())
retain_active(list) == SelectSeq(list, is_active)

\* Scene::entity_count
entity_count == Len(entities) + Len(entities_to_add)
\* Scene::active_entity_count
active_entity_count == Len(SelectSeq(entities, is_active))
\* Scene::get_entities
get_entities == entities
\* Scene::find_entities with a predicate every entity satisfies
find_entities == SelectSeq(entities, is_active)
\* Scene::find_first_entity with a predicate every entity satisfies: None as
\* <<>> and Some(e) as <<e>>
find_first_entity ==
    IF find_entities = <<>> THEN <<>> ELSE <<Head(find_entities)>>
\* Scene::draw_entities: the entities drawn, in the order they are drawn
draw_entities == SelectSeq(entities, is_active)

\* a mutant: the entity is pushed onto the live list at once
add_entity_immediate(e) ==
    /\ entities' = Append(entities, e)
    /\ call' = [op |-> "add_entity", action |-> NoAction, dt |-> 0,
                 list |-> <<e>>]
    /\ ret' = FALSE
    /\ UNCHANGED <<entities_to_add, should_clear_inactive,
                   scene_observer_vars>>
    /\ UNCHANGED <<manager_vars, observer_vars, dirty>>

\* Scene::add_entity (Game::add_entity hands its argument to it)
add_entity(e) ==
    /\ entities_to_add' = Append(entities_to_add, e)
    /\ call' = [op |-> "add_entity", action |-> NoAction, dt |-> 0,
                 list |-> <<e>>]
    /\ ret' = FALSE
    /\ UNCHANGED <<entities, should_clear_inactive, scene_observer_vars>>
    /\ UNCHANGED <<manager_vars, observer_vars, dirty>>

\* Scene::clear_inactive
clear_inactive ==
    /\ should_clear_inactive' = TRUE
    /\ call' = [op |-> "clear_inactive", action |-> NoAction, dt |-> 0,
                 list |-> <<>>]
    /\ ret' = FALSE
    /\ asked' = TRUE
    /\ UNCHANGED <<entities, entities_to_add, updated, active_before,
                   stopped>>
    /\ UNCHANGED <<manager_vars, observer_vars, dirty>>

\* Scene::clear_all_entities
clear_all_entities ==
    /\ entities' = <<>>
    /\ entities_to_add' = <<>>
    /\ should_clear_inactive' = FALSE
    /\ call' = [op |-> "clear_all_entities", action |-> NoAction, dt |-> 0,
                 list |-> <<>>]
    /\ ret' = FALSE
    /\ UNCHANGED scene_observer_vars
    /\ UNCHANGED <<manager_vars, observer_vars, dirty>>

\* a mutant: the inactive entities are dropped before the entity loop, so an
\* entity the loop leaves inactive survives the call
Scene_update_retains_first(dt, stop) ==
    \E moved \in {entities \o entities_to_add} :
    \E passed \in {entity_pass(IF should_clear_inactive
                               THEN retain_active(moved) ELSE moved, stop)} :
        /\ entities' = passed
        /\ entities_to_add' = <<>>
        /\ should_clear_inactive' = FALSE
        /\ updated' = [id \in EntityIds |->
                          IF id \in active_ids(moved) THEN <<dt>> ELSE <<>>]
        /\ stopped' = active_ids(moved) \ active_ids(passed)
        /\ asked' = FALSE
        /\ UNCHANGED active_before

\* Scene::update(dt), on the fields of the scene: the pending entities are
\* moved behind the live ones, every active entity is updated, the inactive
\* ones are dropped when that was asked for
Scene_update(dt, stop) ==
    \E moved \in {entities \o entities_to_add} :
    \E passed \in {entity_pass(moved, stop)} :
        /\ entities' = IF should_clear_inactive THEN retain_active(passed)
                       ELSE passed
        /\ entities_to_add' = <<>>
        /\ should_clear_inactive' = FALSE
        /\ updated' = [id \in EntityIds |->
                          IF id \in active_ids(moved) THEN <<dt>> ELSE <<>>]
        /\ stopped' = active_ids(moved) \ active_ids(passed)
        /\ asked' = FALSE
        /\ UNCHANGED active_before

\* a mutant: the default update_with_input of the trait does not call update
Scene_update_with_input_without_update(dt, stop) ==
    \E moved \in {entities \o entities_to_add} :
    \E passed \in {entity_pass(moved, stop)} :
        /\ entities' = IF should_clear_inactive THEN retain_active(passed)
                       ELSE passed
        /\ entities_to_add' = <<>>
        /\ should_clear_inactive' = FALSE
        /\ updated' = [id \in EntityIds |-> <<>>]
        /\ active_before' = active_ids(moved)
        /\ stopped' = active_ids(moved) \ active_ids(passed)
        /\ asked' = FALSE

\* Scene::update_with_input(dt, input), on the fields of the scene: as
\* Scene::update, but each active entity gets update_with_input(dt, input)
Scene_update_with_input(dt, stop) ==
    \E moved \in {entities \o entities_to_add} :
    \E passed \in {entity_pass(moved, stop)} :
        /\ entities' = IF should_clear_inactive THEN retain_active(passed)
                       ELSE passed
        /\ entities_to_add' = <<>>
        /\ should_clear_inactive' = FALSE
        /\ updated' = [id \in EntityIds |->
                          IF \E i \in 1..Len(moved) :
                                 /\ moved[i].id = id
                                 /\ is_active(moved[i])
                                 /\ moved[i].calls_update
                          THEN <<dt>> ELSE <<>>]
        /\ active_before' = active_ids(moved)
        /\ stopped' = active_ids(moved) \ active_ids(passed)
        /\ asked' = FALSE

\* a call of Scene::update(dt) on a scene of its own (no Game::run)
call_update(dt, stop) ==
    /\ Scene_update(dt, stop)
    /\ call' = [op |-> "scene_update", action |-> NoAction, dt |-> dt,
                 list |-> entities_to_add]
    /\ ret' = FALSE
    /\ UNCHANGED <<manager_vars, observer_vars, dirty>>

\* a call of Scene::update_with_input(dt, input) on a scene of its own
call_update_with_input(dt, stop) ==
    /\ Scene_update_with_input(dt, stop)
    /\ call' = [op |-> "update_with_input", action |-> NoAction, dt |-> dt,
                 list |-> entities_to_add]
    /\ ret' = FALSE
    /\ UNCHANGED <<manager_vars, observer_vars, dirty>>

\* ----------------------------------------------------------------- Game::run
\* The steps of one iteration of the loop of Game::run.  call.op tells which
\* step ran last; run holds &mut Game for good, so nothing but these steps
\* touches the input manager once the loop runs.

\* time_manager.update(); let dt = time_manager.delta_time(): dt is the wall
\* time since the last frame times time_scale, kept in call.dt.  The loop is
\* entered after the construction or after the add_entity calls that follow
\* it.
time_manager_update(dt) ==
    /\ call.op \in {"new", "add_entity", "next_frame"}
    /\ call' = [op |-> "time_manager_update", action |-> NoAction, dt |-> dt,
                 list |-> <<>>]
    /\ ret' = FALSE
    /\ UNCHANGED <<scene_vars, scene_observer_vars>>
    /\ UNCHANGED <<manager_vars, observer_vars, dirty>>

\* input_manager.update(dt)
input_manager_update(down, mdown) ==
    /\ call.op = "time_manager_update"
    /\ update(call.dt, down, mdown)

\* a mutant: the entities get the manager by &mut and the player consumes the
\* buffered Jump it reads
scene_update_with_input_consuming ==
    /\ call.op = "update"
    /\ call' = [op |-> "update_with_input", action |-> Jump, dt |-> call.dt,
                 list |-> <<>>]
    /\ ret' = (is_action_just_activated(Jump) \/ is_action_buffered(Jump))
    /\ \E stop \in SUBSET active_ids(entities \o entities_to_add) :
           Scene_update_with_input(call.dt, stop)
    /\ buffered_actions' =
           [x \in DOMAIN buffered_actions \ {Jump} |-> buffered_actions[x]]
    /\ elapsed' = [elapsed EXCEPT ![Jump] = -1]
    /\ act_time' = [act_time EXCEPT ![Jump] = 0]
    /\ since_first' = [since_first EXCEPT ![Jump] = -1]
    /\ refreshed' = refreshed \ {Jump}
    /\ UNCHANGED <<bindings, raw_vars, action_vars, buffer_time,
                   prev_active, poll, dirty>>

\* scene.update_with_input(dt, &self.input_manager): every active entity
\* reads the manager through a shared reference; the player of
\* examples/input_demo.rs asks for Jump just-activated or buffered
scene_update_with_input ==
    /\ call.op = "update"
    /\ call' = [op |-> "update_with_input", action |-> Jump, dt |-> call.dt,
                 list |-> <<>>]
    /\ ret' = (is_action_just_activated(Jump) \/ is_action_buffered(Jump))
    /\ \E stop \in SUBSET active_ids(entities \o entities_to_add) :
           Scene_update_with_input(call.dt, stop)
    /\ UNCHANGED <<manager_vars, observer_vars, dirty>>

\* clear_background, camera.update, camera.apply and scene.update(dt), with
\* the dt of the frame
scene_update ==
    /\ call.op = "update_with_input"
    /\ call' = [op |-> "scene_update", action |-> NoAction, dt |-> call.dt,
                 list |-> <<>>]
    /\ ret' = FALSE
    /\ \E stop \in SUBSET active_ids(entities) :
           Scene_update(call.dt, stop)
    /\ UNCHANGED <<manager_vars, observer_vars, dirty>>

\* scene.draw and the debug texts (draw_input_debug reads the manager
\* through &self)
scene_draw ==
    /\ call.op = "scene_update"
    /\ call' = [op |-> "draw", action |-> NoAction, dt |-> call.dt,
                 list |-> <<>>]
    /\ ret' = FALSE
    /\ UNCHANGED <<scene_vars, scene_observer_vars>>
    /\ UNCHANGED <<manager_vars, observer_vars, dirty>>

\* next_frame().await
next_frame ==
    /\ call.op = "draw"
    /\ call' = [op |-> "next_frame", action |-> NoAction, dt |-> call.dt,
                 list |-> <<>>]
    /\ ret' = FALSE
    /\ UNCHANGED <<scene_vars, scene_observer_vars>>
    /\ UNCHANGED <<manager_vars, observer_vars, dirty>>

\* ----------------------------------------------------------- specifications

\* Spec: the binding table is rebound, extended, emptied and cleared between
\* frames of FrameDt each, while the device holds any of Space and the middle
\* button (which no default binding uses).
DeviceKeys == {"Space"}
DeviceButtons == {"Middle"}
\* the actions the callers rebind
TableActions == {Jump}
\* the lists bind_action is called with, and the bindings add_binding appends
BindingLists == {<<>>, <<key("Space")>>}
MoreBindings == {mouse("Middle")}

Update ==
    \E down \in SUBSET DeviceKeys, mdown \in SUBSET DeviceButtons :
        update(FrameDt, down, mdown)

BindAction == \E a \in TableActions, list \in BindingLists : bind_action(a, list)

AddBinding ==
    \E a \in TableActions, b \in MoreBindings :
        /\ a \in DOMAIN bindings => Len(bindings[a]) < MaxBindings
        /\ add_binding(a, b)

UnbindAction == \E a \in TableActions : unbind_action(a)

ClearBindings == clear_bindings

Next ==
    \/ Update
    \/ BindAction
    \/ AddBinding
    \/ UnbindAction
    \/ ClearBindings

Spec == Init /\ [][Next]_vars

\* SpecBuffer: the default table; frames of 0..MaxFrameSkip nominal frames
\* while the device holds Space or not, with set_buffer_time, queries and
\* consumption of the buffered Jump in between.
BufferActions == {Jump}

UpdateAnyDt ==
    \E dt \in Dts, down \in SUBSET DeviceKeys : update(dt, down, {})

SetBufferTime == \E t \in BufferTimes : set_buffer_time(t)

IsActionBuffered == \E a \in BufferActions : query_action_buffered(a)

ConsumeBufferedAction == \E a \in BufferActions : consume_buffered_action(a)

NextBuffer ==
    \/ UpdateAnyDt
    \/ SetBufferTime
    \/ IsActionBuffered
    \/ ConsumeBufferedAction

SpecBuffer == Init /\ [][NextBuffer]_vars

\* SpecJump: the default table (Jump on Space alone, buffer_time 100 ms),
\* every frame of FrameDt = 16 ms, nothing consumed.  The device holds any of
\* Space and the middle button; the caller may ask is_action_buffered(Jump).
UpdateFrame ==
    \E down \in SUBSET DeviceKeys, mdown \in SUBSET DeviceButtons :
        update(FrameDt, down, mdown)

IsJumpBuffered == query_action_buffered(Jump)

NextJump ==
    \/ UpdateFrame
    \/ IsJumpBuffered

SpecJump == Init /\ [][NextJump]_vars

\* SpecSprint: as examples/input_demo.rs sets it up before the loop runs:
\* sprint is bound to LeftShift and RightShift, then the frames follow, the
\* device holding any of the two keys.
SprintKeys == {"LeftShift", "RightShift"}

BindSprint ==
    /\ call.op = "new"
    /\ bind_action(Sprint, <<key("LeftShift"), key("RightShift")>>)

UpdateSprint ==
    /\ Sprint \in DOMAIN bindings
    /\ \E dt \in Dts, down \in SUBSET SprintKeys : update(dt, down, {})

IsSprintBuffered ==
    /\ Sprint \in DOMAIN bindings
    /\ query_action_buffered(Sprint)

NextSprint ==
    \/ BindSprint
    \/ UpdateSprint
    \/ IsSprintBuffered

SpecSprint == Init /\ [][NextSprint]_vars

\* SpecModifier: Jump is rebound to Space with one or with two modifier keys
\* before the first frame; then the frames follow, the device holding any of
\* the three keys.
ModifierKeys == {"Space", "LeftShift", "RightShift"}
ModifierBindings ==
    {key_with_modifier("Space", "LeftShift"),
     with_modifier(key_with_modifier("Space", "LeftShift"), "RightShift")}

BindModified ==
    /\ call.op = "new"
    /\ \E b \in ModifierBindings : bind_action(Jump, <<b>>)

UpdateModified ==
    /\ call.op # "new"
    /\ \E down \in SUBSET ModifierKeys : update(FrameDt, down, {})

NextModifier ==
    \/ BindModified
    \/ UpdateModified

SpecModifier == Init /\ [][NextModifier]_vars

\* SpecResolve: sprint is bound to Space with the LeftShift modifier before
\* the first frame; between frames Jump is rebound to an empty list or to the
\* middle button and LeftShift, or unbound.  The device holds any of Space,
\* LeftShift and the middle button.  The game is paused
\* (TimeManager::set_time_scale(0.0)): every frame's delta_time is 0.
ResolveKeys == {"Space", "LeftShift"}
ResolveButtons == {"Middle"}
ResolveLists == {<<>>, <<mouse("Middle"), key("LeftShift")>>}

BindSprintModified ==
    /\ call.op = "new"
    /\ bind_action(Sprint, <<key_with_modifier("Space", "LeftShift")>>)

UpdateResolve ==
    /\ Sprint \in DOMAIN bindings
    /\ \E down \in SUBSET ResolveKeys, mdown \in SUBSET ResolveButtons :
           update(0, down, mdown)

BindResolve ==
    /\ Sprint \in DOMAIN bindings
    /\ \E list \in ResolveLists : bind_action(Jump, list)

UnbindResolve ==
    /\ Sprint \in DOMAIN bindings
    /\ unbind_action(Jump)

NextResolve ==
    \/ BindSprintModified
    \/ UpdateResolve
    \/ BindResolve
    \/ UnbindResolve

SpecResolve == Init /\ [][NextResolve]_vars

\* SpecRaw: a caller that reads the raw queries only: it clears the binding
\* table after new(), then the frames follow.  The device holds any of Space,
\* F1 (a key update_key_state does not poll) and the three mouse buttons.
RawKeys == {"Space", "F1"}
RawButtons == {"Left", "Right", "Middle"}

ClearRaw ==
    /\ call.op = "new"
    /\ clear_bindings

UpdateRaw ==
    /\ call.op # "new"
    /\ \E down \in SUBSET RawKeys, mdown \in SUBSET RawButtons :
           update(FrameDt, down, mdown)

NextRaw ==
    \/ ClearRaw
    \/ UpdateRaw

SpecRaw == Init /\ [][NextRaw]_vars

\* SpecShared: as examples/input_demo.rs does before the loop runs, Up is
\* added to Jump's bindings, while MoveUp has it by default; then the frames
\* follow, the device holding Up or not, and between frames either action is
\* consumed from the buffer or unbound.
SharedKeys == {"Up"}
SharedActions == {Jump, MoveUp}

AddUpToJump ==
    /\ call.op = "new"
    /\ add_binding(Jump, key("Up"))

UpdateShared ==
    /\ call.op # "new"
    /\ \E down \in SUBSET SharedKeys : update(FrameDt, down, {})

ConsumeShared ==
    /\ call.op # "new"
    /\ \E a \in SharedActions : consume_buffered_action(a)

UnbindShared ==
    /\ call.op # "new"
    /\ \E a \in SharedActions : unbind_action(a)

NextShared ==
    \/ AddUpToJump
    \/ UpdateShared
    \/ ConsumeShared
    \/ UnbindShared

SpecShared == Init /\ [][NextShared]_vars

\* SpecMove: the default table; the device holds any of W, A, S and D.  The
\* game is paused (TimeManager::set_time_scale(0.0)): every frame's
\* delta_time is 0.
MoveKeys == {"W", "A", "S", "D"}
MoveActions == {MoveUp, MoveDown, MoveLeft, MoveRight}

UpdateMove == \E down \in SUBSET MoveKeys : update(0, down, {})

NextMove == UpdateMove

SpecMove == Init /\ [][NextMove]_vars

\* SpecQuery: between frames of FrameDt Jump is rebound to an empty list or to
\* Space again, and Jump or sprint (which nothing binds) is consumed from the
\* buffer; the device holds Space or not.
QueryActions == {Jump, Sprint}
QueryLists == {<<>>, <<key("Space")>>}

UpdateQuery == \E down \in SUBSET DeviceKeys : update(FrameDt, down, {})

BindQuery == \E list \in QueryLists : bind_action(Jump, list)

ConsumeQuery == \E a \in QueryActions : consume_buffered_action(a)

NextQuery ==
    \/ UpdateQuery
    \/ BindQuery
    \/ ConsumeQuery

SpecQuery == Init /\ [][NextQuery]_vars

\* SpecGame: Game::run with the default table.  Each frame the wall time
\* times time_scale is one of Dts and the device holds Space or not.
TimeManagerUpdate == \E dt \in Dts : time_manager_update(dt)

InputManagerUpdate ==
    \E down \in SUBSET DeviceKeys : input_manager_update(down, {})

SceneUpdateWithInput == scene_update_with_input

SceneUpdate == scene_update

SceneDraw == scene_draw

NextFrame == next_frame

NextGame ==
    \/ TimeManagerUpdate
    \/ InputManagerUpdate
    \/ SceneUpdateWithInput
    \/ SceneUpdate
    \/ SceneDraw
    \/ NextFrame

SpecGame == Init /\ [][NextGame]_vars

\* SpecIdentity: the named action "Jump" is bound to LeftShift before the
\* first frame, while Jump keeps Space; then the frames follow, the device
\* holding any of the two keys, and either action is consumed from the buffer.
IdentityKeys == {"Space", "LeftShift"}
IdentityActions == {Jump, CustomJump}

BindCustomJump ==
    /\ call.op = "new"
    /\ bind_action(custom("Jump"), <<key("LeftShift")>>)

UpdateIdentity ==
    /\ call.op # "new"
    /\ \E down \in SUBSET IdentityKeys : update(FrameDt, down, {})

ConsumeIdentity ==
    /\ call.op # "new"
    /\ \E a \in IdentityActions : consume_buffered_action(a)

NextIdentity ==
    \/ BindCustomJump
    \/ UpdateIdentity
    \/ ConsumeIdentity

SpecIdentity == Init /\ [][NextIdentity]_vars

\* SpecUnpolled: between frames of FrameDt Jump is rebound to lists that need
\* F1, a key update_key_state does not poll, as the key or as a modifier, or
\* to Space again; the device holds any of Space and F1.
UnpolledKeys == {"Space", "F1"}
UnpolledLists ==
    {<<key("F1")>>, <<key_with_modifier("Space", "F1"), key("F1")>>}

UpdateUnpolled == \E down \in SUBSET UnpolledKeys : update(FrameDt, down, {})

BindUnpolled ==
    \E list \in UnpolledLists \cup {<<key("Space")>>} :
        bind_action(Jump, list)

NextUnpolled ==
    \/ UpdateUnpolled
    \/ BindUnpolled

SpecUnpolled == Init /\ [][NextUnpolled]_vars

\* SpecFirst: a caller may set buffer_time on the new manager; then the
\* frames follow, of 0..MaxFrameSkip nominal frames each, the device holding
\* any of Space and the middle button, from the first update on.
SetBufferTimeFirst ==
    /\ call.op = "new"
    /\ \E t \in BufferTimes : set_buffer_time(t)

UpdateFirst ==
    \E dt \in Dts, down \in SUBSET DeviceKeys, mdown \in SUBSET DeviceButtons :
        update(dt, down, mdown)

NextFirst ==
    \/ SetBufferTimeFirst
    \/ UpdateFirst

SpecFirst == Init /\ [][NextFirst]_vars

\* SpecRun: the entities are boxed and handed to Game::add_entity one after
\* the other (active or not, keeping the default update_with_input or not),
\* then Game::run loops; the device holds nothing.
Boxed(id_choice) ==
    [id : id_choice, active : BOOLEAN, calls_update : BOOLEAN]

AddEntityRun ==
    /\ call.op \in {"new", "add_entity"}
    /\ entity_count < MaxEntities
    /\ \E e \in Boxed({entity_count + 1}) : add_entity(e)

InputManagerUpdateRun == input_manager_update({}, {})

NextRun ==
    \/ AddEntityRun
    \/ TimeManagerUpdate
    \/ InputManagerUpdateRun
    \/ SceneUpdateWithInput
    \/ SceneUpdate
    \/ SceneDraw
    \/ NextFrame

SpecRun == Init /\ [][NextRun]_vars

\* SpecScene: a scene used on its own.  Entities that keep the default
\* update_with_input are boxed, active or not, and added; the scene is
\* updated with or without input, with frames of FrameDt; clear_inactive and
\* clear_all_entities are called at any time.  A box removed from the scene
\* is gone; its id is then free, and the next entity boxed gets the lowest
\* free id.
AddEntity ==
    \E free \in {EntityIds \ id_set(entities \o entities_to_add)} :
    \E e \in [id : {i \in free : \A j \in free : i <= j},
              active : BOOLEAN, calls_update : {TRUE}] :
        add_entity(e)

CallUpdate ==
    \E stop \in SUBSET active_ids(entities \o entities_to_add) :
        call_update(FrameDt, stop)

CallUpdateWithInput ==
    \E stop \in SUBSET active_ids(entities \o entities_to_add) :
        call_update_with_input(FrameDt, stop)

ClearInactive == clear_inactive

ClearAllEntities == clear_all_entities

NextScene ==
    \/ AddEntity
    \/ CallUpdate
    \/ CallUpdateWithInput
    \/ ClearInactive
    \/ ClearAllEntities

SpecScene == Init /\ [][NextScene]_vars

\* ------------------------------------------------------------------ claims

\* the update that last activated a was k frames of FrameDt ago (0: it is the
\* last update), while every update since took FrameDt
FramesSince(a) == elapsed[a] \div FrameDt - 1

\* C1, as claimed: when update returns, every action it just activated is
\* buffered.
C1_ActivationSurvivesItsUpdate ==
    call.op = "update" => actions_just_activated \subseteq DOMAIN buffered_actions

\* C1, amended: when update(dt) returns, an action it just activated is
\* buffered iff dt < buffer_time (its remaining time is then buffer_time - dt);
\* with dt >= buffer_time the decay step of that same update removes the entry.
C1_ActivationSurvivesIffDtBelowBufferTime ==
    call.op = "update" =>
        \A a \in actions_just_activated :
            /\ is_action_buffered(a) <=> call.dt < buffer_time
            /\ is_action_buffered(a) => buffered_actions[a] = buffer_time - call.dt

C1_Witness ==
    /\ call.op = "update"
    /\ call.dt > 0
    /\ call.dt < buffer_time
    /\ Jump \in actions_just_activated
    /\ is_action_buffered(Jump)

C3_BufferedThroughFrameNPlus6 ==
    elapsed[Jump] >= 0 =>
        /\ is_action_just_activated(Jump) <=> FramesSince(Jump) = 0
        /\ FramesSince(Jump) \in 0..6 => is_action_buffered(Jump)
        /\ FramesSince(Jump) = 7 => ~is_action_buffered(Jump)

\* C3, amended: Jump is just-activated after the update of frame N only, is
\* buffered after the updates of frames N..N+5 and after no update from frame
\* N+6 on (until it is activated again).
C3_BufferedThroughFrameNPlus5 ==
    elapsed[Jump] >= 0 =>
        /\ is_action_just_activated(Jump) <=> FramesSince(Jump) = 0
        /\ is_action_buffered(Jump) <=> FramesSince(Jump) \in 0..5

C3_Witness ==
    /\ FramesSince(Jump) = 6
    /\ call.op = "update"
    /\ "Space" \in keys_pressed
    /\ ~is_action_buffered(Jump)

\* C4, as claimed: just-activated is the active set minus the active set of
\* the previous update, and just-deactivated is the reverse difference.
C4_ActionEdgesAreSetDifferences ==
    /\ actions_just_activated = actions_active \ prev_active
    /\ actions_just_deactivated = prev_active \ actions_active

\* C5, as claimed: an action with no entry in the table is never active.
C5_NoEntryNeverActive ==
    \A a \in Actions : a \notin DOMAIN bindings => ~is_action_active(a)

\* C5, amended: while the table has not been mutated since the last update,
\* an action with no entry in it is not active (an action unbound while
\* active stays active until the next update).
C5_NoEntryNotActiveOnceUpdated ==
    ~dirty => \A a \in Actions : a \notin DOMAIN bindings => ~is_action_active(a)

C5_Witness ==
    /\ ~dirty
    /\ Jump \notin DOMAIN bindings
    /\ Jump \in prev_active
    /\ "Space" \in keys_pressed
    /\ ~is_action_active(Jump)

\* C6, as claimed: an action bound to the empty list is never active and
\* never just-activated.
C6_EmptyListNeverActive ==
    \A a \in DOMAIN bindings :
        bindings[a] = <<>> =>
            ~is_action_active(a) /\ ~is_action_just_activated(a)

\* C6, amended: while the table has not been mutated since the last update,
\* an action bound to the empty list is neither active nor just-activated
\* (what it was when the empty list was bound stays until the next update).
C6_EmptyListNotActiveOnceUpdated ==
    ~dirty =>
        \A a \in DOMAIN bindings :
            bindings[a] = <<>> =>
                ~is_action_active(a) /\ ~is_action_just_activated(a)

C6_Witness ==
    /\ ~dirty
    /\ Jump \in DOMAIN bindings
    /\ bindings[Jump] = <<>>
    /\ Jump \in prev_active
    /\ "Space" \in keys_pressed
    /\ ~is_action_active(Jump)

\* C7: just-pressed and just-released are disjoint for keys and for buttons,
\* and just-activated and just-deactivated are disjoint for actions.
C7_EdgesDisjoint ==
    /\ keys_just_pressed \cap keys_just_released = {}
    /\ mouse_just_pressed \cap mouse_just_released = {}
    /\ actions_just_activated \cap actions_just_deactivated = {}

C7_Witness ==
    /\ "Space" \in keys_just_released
    /\ "Middle" \in mouse_just_pressed
    /\ Jump \in actions_just_deactivated
    /\ actions_just_activated = {}

C9_ConsumeExactlyOnce ==
    [][ /\ call'.op = "consume_buffered_action" =>
             /\ ret' = (call'.action \in DOMAIN buffered_actions)
             /\ call'.action \notin DOMAIN buffered_actions'
             /\ \A x \in DOMAIN buffered_actions \ {call'.action} :
                    /\ x \in DOMAIN buffered_actions'
                    /\ buffered_actions'[x] = buffered_actions[x]
             /\ (call.op = "consume_buffered_action" /\ call.action = call'.action)
                    => ret' = FALSE
        /\ call'.op = "is_action_buffered" =>
             /\ ret' = (call'.action \in DOMAIN buffered_actions)
             /\ buffered_actions' = buffered_actions ]_vars

C9_Witness ==
    /\ call.op = "consume_buffered_action"
    /\ call.action = Jump
    /\ ret = TRUE
    /\ Jump \in actions_active
    /\ ~is_action_buffered(Jump)

\* C10: sprint, bound to LeftShift and RightShift, is active iff one of the
\* two is down; a release that leaves the other key down keeps it active and
\* not just-deactivated; it is just-deactivated exactly after the update that
\* saw the last of the held keys released.
C10_MultiBindingOr ==
    Sprint \in DOMAIN bindings =>
        /\ is_action_active(Sprint) <=> keys_pressed \cap SprintKeys # {}
        /\ (keys_just_released \cap SprintKeys # {}
              /\ keys_pressed \cap SprintKeys # {}) =>
               is_action_active(Sprint) /\ ~is_action_just_deactivated(Sprint)
        /\ is_action_just_deactivated(Sprint) <=>
               (keys_pressed \cap SprintKeys = {}
                 /\ keys_just_released \cap SprintKeys # {})

C10_Witness ==
    /\ call.op = "update"
    /\ "LeftShift" \in keys_just_released
    /\ "RightShift" \in keys_pressed
    /\ "RightShift" \notin keys_just_pressed
    /\ is_action_active(Sprint)
    /\ ~is_action_just_deactivated(Sprint)


\* C11: when update has returned and Jump has a single binding, a key with
\* modifiers, Jump is active iff the device reported the key and every
\* modifier down in that update; and if Jump was active before, the key is
\* still down and a modifier has been released, Jump is inactive and
\* just-deactivated.
C11_ModifierConjunction ==
    call.op = "update" =>
        \A b \in ModifierBindings :
            bindings[Jump] = <<b>> =>
                /\ is_action_active(Jump) <=>
                       /\ b.code \in poll.keys_down
                       /\ \A i \in 1..Len(b.modifiers) :
                              b.modifiers[i] \in poll.keys_down
                /\ ( /\ Jump \in prev_active
                     /\ b.code \in poll.keys_down
                     /\ \E i \in 1..Len(b.modifiers) :
                            /\ b.modifiers[i] \in poll.keys_before
                            /\ b.modifiers[i] \notin poll.keys_down )
                   => /\ ~is_action_active(Jump)
                      /\ is_action_just_deactivated(Jump)

\* C11 witness: Space needs both shift keys; RightShift has just been released
\* while Space and LeftShift stay down, and Jump is just-deactivated
C11_Witness ==
    /\ call.op = "update"
    /\ Len(bindings[Jump][1].modifiers) = 2
    /\ {"Space", "LeftShift"} \subseteq keys_pressed
    /\ "RightShift" \in keys_just_released
    /\ Jump \in prev_active
    /\ is_action_just_deactivated(Jump)

\* C12: when update has returned, the active actions are exactly the actions
\* of the binding table with a binding that the keys and buttons the device
\* reported in that update satisfy: a key binding by its key and all its
\* modifiers, a mouse binding by its button.
C12_ActiveIsResolvedTable ==
    call.op = "update" =>
        actions_active =
            {a \in DOMAIN bindings :
                \E i \in 1..Len(bindings[a]) :
                    \/ /\ bindings[a][i].kind = "Key"
                       /\ bindings[a][i].code \in poll.keys_down
                       /\ \A j \in 1..Len(bindings[a][i].modifiers) :
                              bindings[a][i].modifiers[j] \in poll.keys_down
                    \/ /\ bindings[a][i].kind = "Mouse"
                       /\ bindings[a][i].code \in poll.buttons_down}

\* C12 witness: of two bound actions the update found Jump's mouse binding
\* satisfied and sprint's key-with-modifier binding not (LeftShift is up)
C12_Witness ==
    /\ call.op = "update"
    /\ {Jump, Sprint} \subseteq DOMAIN bindings
    /\ bindings[Jump] = <<mouse("Middle"), key("LeftShift")>>
    /\ bindings[Sprint] = <<key_with_modifier("Space", "LeftShift")>>
    /\ poll.keys_down = {"Space"}
    /\ poll.buttons_down = {"Middle"}
    /\ actions_active = {Jump}

\* C13, as claimed: every buffered action was just-activated at an update
\* since which less dt has accumulated than the current buffer_time.
C13_BufferedWithinCurrentBufferTime ==
    \A a \in DOMAIN buffered_actions :
        elapsed[a] >= 0 /\ elapsed[a] < buffer_time

\* C13, amended: every buffered action was just-activated at an update since
\* which (that update's dt included) less dt has accumulated than the
\* buffer_time that update inserted the entry with.
C13_BufferedWithinBufferTimeAtActivation ==
    \A a \in DOMAIN buffered_actions :
        elapsed[a] >= 0 /\ elapsed[a] < act_time[a]

\* C13 witness: set_buffer_time has shortened buffer_time below the time
\* already accumulated by a Jump that is still buffered
C13_Witness ==
    /\ is_action_buffered(Jump)
    /\ buffer_time < act_time[Jump]
    /\ elapsed[Jump] >= buffer_time
    /\ call.op = "update"

\* C14: an update removes a buffer entry exactly when its remaining time less
\* dt is zero or below (the remaining time of an action this update has just
\* activated being buffer_time), the entries it keeps have that difference as
\* their remaining time, and when update has returned every remaining time is
\* above zero.
C14_RemovedExactlyAtZeroOrBelow ==
    [][call'.op = "update" =>
          /\ \A a \in DOMAIN buffered_actions \cup actions_just_activated' :
                 \E before \in {IF a \in actions_just_activated'
                                THEN buffer_time ELSE buffered_actions[a]} :
                     /\ a \notin DOMAIN buffered_actions'
                            <=> before - call'.dt <= 0
                     /\ a \in DOMAIN buffered_actions'
                            => buffered_actions'[a] = before - call'.dt
          /\ DOMAIN buffered_actions'
                 \subseteq DOMAIN buffered_actions \cup actions_just_activated'
          /\ \A a \in DOMAIN buffered_actions' : buffered_actions'[a] > 0]_vars

\* C14 witness: the update has taken exactly the remaining time of the Jump
\* entry, which is gone, while Space is still held
C14_Witness ==
    /\ call.op = "update"
    /\ call.dt > 0
    /\ elapsed[Jump] = act_time[Jump]
    /\ Jump \in actions_active
    /\ Jump \notin actions_just_activated
    /\ ~is_action_buffered(Jump)

\* C15, as claimed: update(0) leaves every entry that was buffered before the
\* call in the buffer, with the same remaining time.
C15_ZeroDtKeepsEveryEntry ==
    [][(call'.op = "update" /\ call'.dt = 0) =>
          \A a \in DOMAIN buffered_actions :
              /\ a \in DOMAIN buffered_actions'
              /\ buffered_actions'[a] = buffered_actions[a]]_vars

\* C15, amended: update(0) detects the raw and the activation edges of its
\* frame; it leaves every buffered entry of an action it does not just
\* activate in the buffer with the same remaining time; an action it just
\* activates is buffered with buffer_time when buffer_time is above zero, and
\* is not buffered otherwise; nothing else enters the buffer.
C15_ZeroDtKeepsEntriesNotReactivated ==
    [][(call'.op = "update" /\ call'.dt = 0) =>
          /\ keys_just_pressed' = keys_pressed' \ keys_pressed
          /\ keys_just_released' = keys_pressed \ keys_pressed'
          /\ actions_just_activated' = actions_active' \ actions_active
          /\ \A a \in DOMAIN buffered_actions \ actions_just_activated' :
                 /\ a \in DOMAIN buffered_actions'
                 /\ buffered_actions'[a] = buffered_actions[a]
          /\ \A a \in actions_just_activated' :
                 IF buffer_time > 0
                 THEN /\ a \in DOMAIN buffered_actions'
                      /\ buffered_actions'[a] = buffer_time
                 ELSE a \notin DOMAIN buffered_actions'
          /\ DOMAIN buffered_actions'
                 \subseteq DOMAIN buffered_actions \cup actions_just_activated'
      ]_vars

\* C15 witness: an update(0) has found Space newly down while Jump was still
\* buffered from an earlier press, with less remaining time than buffer_time
C15_Witness ==
    /\ call.op = "update"
    /\ call.dt = 0
    /\ "Space" \in keys_just_pressed
    /\ Jump \in actions_just_activated
    /\ Jump \in refreshed
    /\ since_first[Jump] > 0
    /\ is_action_buffered(Jump)
    /\ buffered_actions[Jump] = buffer_time

\* C16: set_buffer_time changes buffer_time and nothing else of the manager:
\* the buffer keeps its entries and their remaining times; an entry an update
\* creates gets the buffer_time current at that update; and every entry's
\* remaining time is the buffer_time it was created with less the dt since,
\* whatever buffer_time has become.
C16_SetBufferTimeOnlyForLaterEntries ==
    [][ /\ call'.op = "set_buffer_time" =>
               /\ buffered_actions' = buffered_actions
               /\ UNCHANGED <<bindings, raw_vars, action_vars>>
        /\ call'.op = "update" =>
               \A a \in actions_just_activated' \cap DOMAIN buffered_actions' :
                   buffered_actions'[a] = buffer_time - call'.dt
        /\ \A a \in DOMAIN buffered_actions' :
               buffered_actions'[a] = act_time'[a] - elapsed'[a] ]_vars

\* C16 witness: set_buffer_time has just set buffer_time below the remaining
\* time of the buffered Jump
C16_Witness ==
    /\ call.op = "set_buffer_time"
    /\ is_action_buffered(Jump)
    /\ buffer_time < buffered_actions[Jump]
    /\ buffer_time # act_time[Jump]

\* C17: bind_action, add_binding, unbind_action and clear_bindings leave the
\* three action sets, the six key and button sets, the buffer and buffer_time
\* as they were; the update that follows resolves the active set from the
\* table as the calls left it.
C17_BindingCallsTouchOnlyTheTable ==
    [][ /\ call'.op \in {"bind_action", "add_binding", "unbind_action",
                         "clear_bindings"} =>
               UNCHANGED <<raw_vars, action_vars, buffered_actions,
                           buffer_time>>
        /\ call'.op = "update" =>
               actions_active' =
                   {a \in DOMAIN bindings :
                       any_binding_active(bindings[a], keys_pressed',
                                          mouse_pressed')} ]_vars

\* C17 witness: Jump has just been unbound while active and buffered, and is
\* still both
C17_Witness ==
    /\ call.op = "unbind_action"
    /\ Jump \notin DOMAIN bindings
    /\ is_action_active(Jump)
    /\ is_action_buffered(Jump)
    /\ "Space" \in keys_pressed

\* C18: the keys down are the polled keys the device reported down in the
\* last update, the keys just pressed are those down now and not down when
\* that update began, the keys just released are those down then and not now;
\* and likewise for the three mouse buttons.
C18_RawEdgesAreSetDifferences ==
    /\ keys_pressed = poll.keys_down \cap all_keys
    /\ keys_just_pressed = keys_pressed \ poll.keys_before
    /\ keys_just_released = poll.keys_before \ keys_pressed
    /\ mouse_pressed = poll.buttons_down \cap {"Left", "Right", "Middle"}
    /\ mouse_just_pressed = mouse_pressed \ poll.buttons_before
    /\ mouse_just_released = poll.buttons_before \ mouse_pressed

\* C18 witness: in one update Space is released while F1 is held, the middle
\* button goes down, the left button goes up and the right button stays down
C18_Witness ==
    /\ call.op = "update"
    /\ poll.keys_down = {"F1"}
    /\ keys_just_released = {"Space"}
    /\ mouse_just_pressed = {"Middle"}
    /\ mouse_just_released = {"Left"}
    /\ mouse_pressed = {"Right", "Middle"}

\* C19: bind_action(a, l) makes get_bindings(a) the list l; add_binding(a, b)
\* makes it the list it was with b appended, or the list of b alone when a
\* had no entry; unbind_action(a) makes it absent; none of the three changes
\* the entry of another action; clear_bindings makes every entry absent;
\* update changes no entry; and sprint, which nothing binds, has no entry.
C19_TableIsMapToOrderedList ==
    [][ /\ \A a \in Actions :
               /\ (call'.op = "bind_action" /\ call'.action = a) =>
                      /\ get_bindings(a)' = <<call'.list>>
                      /\ \A x \in Actions \ {a} :
                             get_bindings(x)' = get_bindings(x)
               /\ (call'.op = "add_binding" /\ call'.action = a) =>
                      /\ get_bindings(a)' =
                             <<(IF get_bindings(a) = <<>> THEN <<>>
                                ELSE get_bindings(a)[1]) \o call'.list>>
                      /\ \A x \in Actions \ {a} :
                             get_bindings(x)' = get_bindings(x)
               /\ (call'.op = "unbind_action" /\ call'.action = a) =>
                      /\ get_bindings(a)' = <<>>
                      /\ \A x \in Actions \ {a} :
                             get_bindings(x)' = get_bindings(x)
        /\ call'.op = "clear_bindings" =>
               \A x \in Actions : get_bindings(x)' = <<>>
        /\ call'.op = "update" =>
               \A x \in Actions : get_bindings(x)' = get_bindings(x)
        /\ get_bindings(Sprint)' = <<>> ]_vars

\* C19 witness: add_binding has appended the middle button to Jump's list,
\* after Space, and the other entries are the default ones
C19_Witness ==
    /\ call.op = "add_binding"
    /\ call.action = Jump
    /\ get_bindings(Jump) = <<(<<key("Space"), mouse("Middle")>>)>>
    /\ get_bindings(Attack) = <<default_bindings[Attack]>>

\* C20: with Up bound to both Jump and MoveUp, the update that finds Up newly
\* down makes each of the two that is still bound active, just-activated and
\* buffered for buffer_time less dt; at every update each of them that is
\* bound is active iff Up is down, whatever was done to the other; consuming
\* or unbinding one leaves the other's buffer entry, table entry and the
\* action sets as they were.
C20_SharedKeyActionsAreIndependent ==
    [][ /\ call'.op = "update" =>
               \A a \in SharedActions \cap DOMAIN bindings :
                   /\ a \in actions_active' <=> "Up" \in keys_pressed'
                   /\ "Up" \in keys_just_pressed' =>
                          /\ a \in actions_active'
                          /\ a \in actions_just_activated'
                          /\ a \in DOMAIN buffered_actions'
                          /\ buffered_actions'[a] = buffer_time - call'.dt
        /\ \A a \in SharedActions :
               (/\ call'.op \in {"consume_buffered_action", "unbind_action"}
                /\ call'.action = a) =>
                   /\ UNCHANGED action_vars
                   /\ \A x \in SharedActions \ {a} :
                          /\ get_bindings(x)' = get_bindings(x)
                          /\ x \in DOMAIN buffered_actions'
                                 <=> x \in DOMAIN buffered_actions
                          /\ x \in DOMAIN buffered_actions =>
                                 buffered_actions'[x] = buffered_actions[x]
      ]_vars

\* C20 witness: the last update found Up newly down and activated both Jump
\* and MoveUp; Jump has since been consumed and MoveUp is still buffered
C20_Witness ==
    /\ call.op = "consume_buffered_action"
    /\ call.action = Jump
    /\ ret
    /\ "Up" \in keys_just_pressed
    /\ {Jump, MoveUp} \subseteq actions_just_activated
    /\ ~is_action_buffered(Jump)
    /\ is_action_buffered(MoveUp)

\* C21: get_movement_input is the zero vector when no movement action is
\* active; with one movement action active it is the unit vector of that
\* action (up -Y, down +Y, left -X, right +X); with exactly up and right
\* active it points to +X and -Y equally and its length is 1 to within the
\* rounding of the division (2/Unit), not the length of the sum.
C21_MovementVector ==
    /\ MoveActions \cap actions_active = {} =>
           get_movement_input = [x |-> 0, y |-> 0]
    /\ MoveActions \cap actions_active = {MoveUp} =>
           get_movement_input = [x |-> 0, y |-> 0 - Unit]
    /\ MoveActions \cap actions_active = {MoveDown} =>
           get_movement_input = [x |-> 0, y |-> Unit]
    /\ MoveActions \cap actions_active = {MoveLeft} =>
           get_movement_input = [x |-> 0 - Unit, y |-> 0]
    /\ MoveActions \cap actions_active = {MoveRight} =>
           get_movement_input = [x |-> Unit, y |-> 0]
    /\ MoveActions \cap actions_active = {MoveUp, MoveRight} =>
           /\ get_movement_input.x > 0
           /\ get_movement_input.y = 0 - get_movement_input.x
           /\ length(get_movement_input) <= Unit
           /\ length(get_movement_input) >= Unit - 2

\* C21 witness: W and D are held, up and right are the active movement actions
C21_Witness ==
    /\ call.op = "update"
    /\ keys_pressed = {"W", "D"}
    /\ MoveActions \cap actions_active = {MoveUp, MoveRight}
    /\ get_movement_input.x > 0

\* C22, as claimed: the four queries answer false for an action that was
\* never bound and for an action whose binding list is empty.
C22_QueriesFalseForEmptyList ==
    \A a \in QueryActions :
        (a \notin DOMAIN bindings \/ bindings[a] = <<>>) =>
            /\ ~is_action_active(a)
            /\ ~is_action_just_activated(a)
            /\ ~is_action_just_deactivated(a)
            /\ ~is_action_buffered(a)

\* C22, amended: the four queries answer false for sprint, which was never
\* bound; for an action whose binding list is empty they answer false after a
\* step if they did before it; and consume_buffered_action of an action with
\* no buffer entry answers false and changes nothing of the manager.
C22_QueriesFalseOnceQuiet ==
    [][ LET Quiet(a) ==
                /\ ~is_action_active(a)
                /\ ~is_action_just_activated(a)
                /\ ~is_action_just_deactivated(a)
                /\ ~is_action_buffered(a)
            EmptyList(a) == a \in DOMAIN bindings /\ bindings[a] = <<>>
        IN  /\ Quiet(Sprint)'
            /\ \A a \in QueryActions :
                   (Quiet(a) /\ EmptyList(a)') => Quiet(a)'
            /\ \A a \in QueryActions :
                   (/\ call'.op = "consume_buffered_action"
                    /\ call'.action = a
                    /\ ~is_action_buffered(a)) =>
                       /\ ret' = FALSE
                       /\ UNCHANGED <<bindings, raw_vars, action_vars,
                                      buffer_time, buffered_actions>> ]_vars

\* C22 witness: Jump's list is empty, an update has run since and found Space
\* down, and consume_buffered_action(Jump) has answered false
C22_Witness ==
    /\ call.op = "consume_buffered_action"
    /\ call.action = Jump
    /\ ~ret
    /\ Jump \in DOMAIN bindings /\ bindings[Jump] = <<>>
    /\ ~dirty
    /\ "Space" \in keys_pressed
    /\ ~is_action_active(Jump)
    /\ ~is_action_just_deactivated(Jump)
    /\ elapsed[Jump] < 0

\* C23: an update in which the device reports no key and no button down
\* leaves no key, no button and no action down or active; the keys and
\* buttons just released are those that were down before it, the actions just
\* deactivated are those that were active before it; and the buffer holds the
\* entries it held before whose remaining time exceeds dt, each less dt.
C23_AllReleasedSnapshot ==
    [][(/\ call'.op = "update"
        /\ poll'.keys_down = {}
        /\ poll'.buttons_down = {}) =>
           /\ keys_pressed' = {} /\ mouse_pressed' = {}
           /\ actions_active' = {}
           /\ keys_just_pressed' = {} /\ mouse_just_pressed' = {}
           /\ actions_just_activated' = {}
           /\ keys_just_released' = keys_pressed
           /\ mouse_just_released' = mouse_pressed
           /\ actions_just_deactivated' = actions_active
           /\ DOMAIN buffered_actions' =
                  {a \in DOMAIN buffered_actions :
                       buffered_actions[a] - call'.dt > 0}
           /\ \A a \in DOMAIN buffered_actions' :
                  buffered_actions'[a] = buffered_actions[a] - call'.dt
      ]_vars

\* C24: in Game::run InputManager::update runs once per frame, right after
\* the time manager's update and with the dt it produced; the entities read
\* the manager only after that update has returned, drawing comes after the
\* entities, and from the update to the next frame's update no field of the
\* manager changes.
C24_OneUpdatePerFrameBeforeReaders ==
    [][ /\ call'.op = "update" =>
               /\ call.op = "time_manager_update"
               /\ call'.dt = call.dt
        /\ call.op = "time_manager_update" => call'.op = "update"
        /\ call'.op = "update_with_input" => call.op = "update"
        /\ call'.op = "scene_update" => call.op = "update_with_input"
        /\ call'.op = "draw" => call.op = "scene_update"
        /\ call'.op = "time_manager_update" =>
               call.op \in {"new", "next_frame"}
        /\ call'.op # "update" => UNCHANGED manager_vars ]_vars

\* C24 witness: the frame has been drawn after the update found Jump
\* just-activated and the player read it buffered
C24_Witness ==
    /\ call.op = "draw"
    /\ call.dt > 0
    /\ is_action_just_activated(Jump)
    /\ is_action_buffered(Jump)
    /\ elapsed[Jump] = call.dt

\* C25: two named actions are equal iff their names are, and a named action
\* is none of the nine well-known ones; with the named action "Jump" bound to
\* LeftShift and Jump to Space, each is active after an update iff its own
\* key is down, and consuming one, through a value built apart from the one
\* it was bound with, answers whether that one was buffered, removes its
\* entry and leaves the other's entry as it was.
C25_ActionIdentityByValue ==
    [][ /\ \A n, m \in {"Jump", "sprint"} :
               (custom(n) = custom(m)) <=> (n = m)
        /\ \A n \in {"Jump", "sprint"} :
               custom(n) \notin {MoveUp, MoveDown, MoveLeft, MoveRight, Jump,
                                 Attack, Defend, Interact, Pause}
        /\ call'.op = "update" =>
               /\ <<"Custom", "Jump">> \in actions_active'
                      <=> "LeftShift" \in keys_pressed'
               /\ <<"Jump", "">> \in actions_active'
                      <=> "Space" \in keys_pressed'
        /\ \A a \in {<<"Custom", "Jump">>, <<"Jump", "">>} :
               (call'.op = "consume_buffered_action" /\ call'.action = a) =>
                   /\ ret' = (a \in DOMAIN buffered_actions)
                   /\ a \notin DOMAIN buffered_actions'
                   /\ \A x \in {<<"Custom", "Jump">>, <<"Jump", "">>} \ {a} :
                          /\ x \in DOMAIN buffered_actions'
                                 <=> x \in DOMAIN buffered_actions
                          /\ x \in DOMAIN buffered_actions =>
                                 buffered_actions'[x] = buffered_actions[x]
      ]_vars

\* C25 witness: both keys are down and both actions were buffered; the named
\* "Jump" has been consumed and Jump is still buffered
C25_Witness ==
    /\ call.op = "consume_buffered_action"
    /\ call.action = <<"Custom", "Jump">>
    /\ ret
    /\ {<<"Custom", "Jump">>, <<"Jump", "">>} \subseteq actions_active
    /\ <<"Custom", "Jump">> \notin DOMAIN buffered_actions
    /\ <<"Jump", "">> \in DOMAIN buffered_actions

\* C26: an entry of the buffer changes only in three ways: an update that
\* does not just-activate its action takes dt from it, and removes it when
\* nothing is left, whether the action stays active, becomes inactive or
\* stays inactive; a consume of its action removes it; an update that
\* just-activates its action overwrites it.  No other step touches it.
C26_EntryLifetimeIgnoresActiveState ==
    [][\A a \in DOMAIN buffered_actions :
           \/ call'.op = "update" /\ a \in actions_just_activated'
           \/ call'.op = "consume_buffered_action" /\ call'.action = a
           \/ /\ call'.op = "update"
              /\ a \notin actions_just_activated'
              /\ IF buffered_actions[a] - call'.dt > 0
                 THEN /\ a \in DOMAIN buffered_actions'
                      /\ buffered_actions'[a] = buffered_actions[a] - call'.dt
                 ELSE a \notin DOMAIN buffered_actions'
           \/ /\ call'.op \notin {"update", "consume_buffered_action"}
              /\ a \in DOMAIN buffered_actions'
              /\ buffered_actions'[a] = buffered_actions[a]
           \/ /\ call'.op = "consume_buffered_action" /\ call'.action # a
              /\ a \in DOMAIN buffered_actions'
              /\ buffered_actions'[a] = buffered_actions[a] ]_vars

\* C26 witness: the update has found Space released; Jump is just-deactivated
\* and still buffered, with the time left from its activation an update
\* before less this update's dt
C26_Witness ==
    /\ call.op = "update"
    /\ call.dt > 0
    /\ is_action_just_deactivated(Jump)
    /\ is_action_buffered(Jump)
    /\ elapsed[Jump] > call.dt
    /\ buffered_actions[Jump] = act_time[Jump] - elapsed[Jump]

\* C27: an action gets a buffer entry it did not have only at an update that
\* finds it active and that it did not enter active; so an action that is
\* active and has been consumed since its last activation (elapsed is reset)
\* is not buffered, and an active action that is buffered was activated less
\* than the entry's buffer_time ago.
C27_NoRebufferingWhileHeld ==
    [][\A a \in BufferActions :
           /\ (a \notin DOMAIN buffered_actions
               /\ a \in DOMAIN buffered_actions') =>
                  /\ call'.op = "update"
                  /\ a \notin actions_active
                  /\ a \in actions_active'
                  /\ a \in actions_just_activated'
           /\ (a \in actions_active' /\ elapsed'[a] < 0) =>
                  a \notin DOMAIN buffered_actions'
           /\ (a \in actions_active' /\ a \in DOMAIN buffered_actions') =>
                  elapsed'[a] < act_time'[a] ]_vars

\* C27 witness: Space has been held through the last update, Jump is active,
\* was consumed after its activation and is not buffered
C27_Witness ==
    /\ call.op = "update"
    /\ "Space" \in keys_pressed
    /\ "Space" \notin keys_just_pressed
    /\ is_action_active(Jump)
    /\ ~is_action_just_activated(Jump)
    /\ elapsed[Jump] < 0
    /\ ~is_action_buffered(Jump)
    /\ buffer_time > FrameDt

\* C28: when an update finds no key and no button newly down or newly up,
\* an action of the table is still just-activated, and buffered, if it was
\* not active and one of its bindings is now satisfied, and just-deactivated
\* if it was active and none of its bindings is satisfied (its list may be
\* empty): the table has changed, not the keys.
C28_ActionEdgeWithoutKeyEdge ==
    (/\ call.op = "update"
     /\ keys_just_pressed = {} /\ keys_just_released = {}
     /\ mouse_just_pressed = {} /\ mouse_just_released = {}) =>
        \A a \in TableActions \cap DOMAIN bindings :
            /\ (/\ a \notin prev_active
                /\ \E i \in 1..Len(bindings[a]) :
                       \/ /\ bindings[a][i].kind = "Key"
                          /\ bindings[a][i].code \in keys_pressed
                       \/ /\ bindings[a][i].kind = "Mouse"
                          /\ bindings[a][i].code \in mouse_pressed) =>
                   /\ is_action_just_activated(a)
                   /\ is_action_buffered(a)
                   /\ buffered_actions[a] = buffer_time - call.dt
            /\ (/\ a \in prev_active
                /\ \A i \in 1..Len(bindings[a]) :
                       /\ bindings[a][i].kind = "Key" =>
                              bindings[a][i].code \notin keys_pressed
                       /\ bindings[a][i].kind = "Mouse" =>
                              bindings[a][i].code \notin mouse_pressed) =>
                   /\ is_action_just_deactivated(a)
                   /\ ~is_action_active(a)

\* C28 witness: Space was held while Jump had an empty list; Jump has been
\* bound to Space and the update reports it just-activated and buffered with
\* no key just pressed
C28_Witness ==
    /\ call.op = "update"
    /\ keys_just_pressed = {} /\ keys_just_released = {}
    /\ mouse_just_pressed = {} /\ mouse_just_released = {}
    /\ keys_pressed = {"Space"}
    /\ Jump \in DOMAIN bindings
    /\ bindings[Jump] = <<key("Space")>>
    /\ is_action_just_activated(Jump)
    /\ is_action_buffered(Jump)

\* C29, as claimed: an action all of whose bindings need a key outside the
\* polled set, as key or as modifier, is not active, not just-activated and
\* not buffered.
C29_UnpolledBindingsNeverActive ==
    (/\ Jump \in DOMAIN bindings
     /\ bindings[Jump] \in UnpolledLists) =>
        /\ ~is_action_active(Jump)
        /\ ~is_action_just_activated(Jump)
        /\ ~is_action_buffered(Jump)

\* C29, amended: the keys down are polled keys; an update leaves an action
\* all of whose bindings need an unpolled key, as key or as modifier, not
\* active and not just-activated; and such an action that is not active, not
\* just-activated and not buffered before a step is none of them after it.
C29_UnpolledBindingsNeverSatisfied ==
    [][ LET Unpolled(b) ==
                /\ b.kind = "Key"
                /\ \/ b.code \notin all_keys
                   \/ \E i \in 1..Len(b.modifiers) :
                          b.modifiers[i] \notin all_keys
            AllUnpolled(a) ==
                /\ a \in DOMAIN bindings
                /\ Len(bindings[a]) > 0
                /\ \A i \in 1..Len(bindings[a]) : Unpolled(bindings[a][i])
            Quiet(a) ==
                /\ ~is_action_active(a)
                /\ ~is_action_just_activated(a)
                /\ ~is_action_buffered(a)
        IN  /\ keys_pressed' \subseteq all_keys
            /\ (call'.op = "update" /\ AllUnpolled(Jump)') =>
                   /\ ~is_action_active(Jump)'
                   /\ ~is_action_just_activated(Jump)'
            /\ (Quiet(Jump) /\ AllUnpolled(Jump)') => Quiet(Jump)' ]_vars

\* C29 witness: the device reports Space and F1 down, Jump needs Space with
\* the modifier F1 or F1 alone, and the update leaves it inactive and not
\* buffered
C29_Witness ==
    /\ call.op = "update"
    /\ poll.keys_down = {"Space", "F1"}
    /\ keys_pressed = {"Space"}
    /\ Jump \in DOMAIN bindings
    /\ bindings[Jump] = <<key_with_modifier("Space", "F1"), key("F1")>>
    /\ ~is_action_active(Jump)
    /\ ~is_action_just_deactivated(Jump)
    /\ ~is_action_buffered(Jump)

\* C30: the keys and buttons just pressed are down and those just released
\* are not; the actions just activated are active and were not active after
\* the update before the last, and the actions just deactivated are not
\* active.
C30_StateConsistency ==
    /\ keys_just_pressed \subseteq keys_pressed
    /\ keys_just_released \cap keys_pressed = {}
    /\ mouse_just_pressed \subseteq mouse_pressed
    /\ mouse_just_released \cap mouse_pressed = {}
    /\ actions_just_activated \subseteq actions_active
    /\ actions_just_deactivated \cap actions_active = {}
    /\ actions_just_activated \cap prev_active = {}

\* C30 witness: one update has found Space released and the middle button
\* newly down, with Jump bound to both: Jump stays active, with edges on the
\* key and the button but none on the action
C30_Witness ==
    /\ call.op = "update"
    /\ "Space" \in keys_just_released
    /\ "Middle" \in mouse_just_pressed
    /\ Jump \in DOMAIN bindings
    /\ bindings[Jump] = <<key("Space"), mouse("Middle")>>
    /\ Jump \in prev_active
    /\ is_action_active(Jump)
    /\ ~is_action_just_activated(Jump)
    /\ ~is_action_just_deactivated(Jump)

\* C31: an update that does not just-activate an action leaves its buffer
\* entry, if it keeps it, with no more remaining time than before; no other
\* step than an update or a consume changes an entry; and an entry's
\* remaining time never exceeds the buffer_time its action was last
\* just-activated with.
C31_RemainingNeverIncreases ==
    [][\A a \in BufferActions :
           /\ (/\ call'.op = "update"
               /\ a \notin actions_just_activated'
               /\ a \in DOMAIN buffered_actions
               /\ a \in DOMAIN buffered_actions') =>
                  buffered_actions'[a] <= buffered_actions[a]
           /\ (/\ call'.op \notin {"update", "consume_buffered_action"}
               /\ a \in DOMAIN buffered_actions) =>
                  /\ a \in DOMAIN buffered_actions'
                  /\ buffered_actions'[a] = buffered_actions[a]
           /\ a \in DOMAIN buffered_actions' =>
                  buffered_actions'[a] <= act_time'[a] ]_vars

\* C31 witness: Jump's entry has gone through two updates since its
\* activation, the last with dt above zero, and buffer_time has been set to
\* another value than the entry was made with
C31_Witness ==
    /\ call.op = "update"
    /\ call.dt > 0
    /\ is_action_buffered(Jump)
    /\ ~is_action_just_activated(Jump)
    /\ elapsed[Jump] > call.dt
    /\ buffered_actions[Jump] < act_time[Jump]
    /\ buffer_time # act_time[Jump]

\* C32, as claimed: the first update of a manager buffers every action it
\* just-activates.
C32_FirstUpdateBuffersHeldActions ==
    [][(call.op \in {"new", "set_buffer_time"} /\ call'.op = "update") =>
           \A a \in actions_just_activated' : a \in DOMAIN buffered_actions'
      ]_vars

\* C32, amended: before its first update a manager has no key, button or
\* action in any of its sets and an empty buffer; the first update reports
\* the polled keys and the buttons the device holds as down and just
\* pressed, the actions with a satisfied binding as active and just
\* activated, and buffers these, for buffer_time less dt, iff dt is below
\* buffer_time.
C32_NothingBeforeFirstUpdate ==
    [][ /\ call.op \in {"new", "set_buffer_time"} =>
               /\ keys_pressed = {} /\ keys_just_pressed = {}
               /\ keys_just_released = {}
               /\ mouse_pressed = {} /\ mouse_just_pressed = {}
               /\ mouse_just_released = {}
               /\ actions_active = {} /\ actions_just_activated = {}
               /\ actions_just_deactivated = {}
               /\ DOMAIN buffered_actions = {}
        /\ (call.op \in {"new", "set_buffer_time"} /\ call'.op = "update") =>
               /\ keys_pressed' = poll'.keys_down \cap all_keys
               /\ keys_just_pressed' = keys_pressed'
               /\ mouse_pressed' =
                      poll'.buttons_down \cap {"Left", "Right", "Middle"}
               /\ mouse_just_pressed' = mouse_pressed'
               /\ actions_active' =
                      {a \in DOMAIN bindings :
                          \E i \in 1..Len(bindings[a]) :
                              bindings[a][i].code \in
                                  (IF bindings[a][i].kind = "Key"
                                   THEN keys_pressed' ELSE mouse_pressed')}
               /\ actions_just_activated' = actions_active'
               /\ \A a \in actions_just_activated' :
                      /\ a \in DOMAIN buffered_actions'
                             <=> call'.dt < buffer_time
                      /\ a \in DOMAIN buffered_actions' =>
                             buffered_actions'[a] = buffer_time - call'.dt
      ]_vars

\* C32 witness: the update found Space and the middle button held with
\* nothing down before; both are just pressed, Jump is just-activated and
\* buffered
C32_Witness ==
    /\ call.op = "update"
    /\ poll.keys_before = {} /\ poll.buttons_before = {}
    /\ prev_active = {}
    /\ keys_just_pressed = {"Space"}
    /\ mouse_just_pressed = {"Middle"}
    /\ actions_just_activated = {Jump}
    /\ is_action_buffered(Jump)
    /\ since_first[Jump] = call.dt
    /\ buffered_actions[Jump] = buffer_time - call.dt

\* C33: with up and down both active the Y component of get_movement_input
\* is 0, with left and right both active the X component is 0, and when each
\* pair is either both active or both inactive the result is the zero
\* vector; with one pair cancelled the other axis gives a unit vector.
C33_OpposingMovementCancels ==
    /\ {MoveUp, MoveDown} \subseteq actions_active =>
           get_movement_input.y = 0
    /\ {MoveLeft, MoveRight} \subseteq actions_active =>
           get_movement_input.x = 0
    /\ (/\ MoveUp \in actions_active <=> MoveDown \in actions_active
        /\ MoveLeft \in actions_active <=> MoveRight \in actions_active) =>
           get_movement_input = [x |-> 0, y |-> 0]
    /\ MoveActions \cap actions_active = {MoveUp, MoveDown, MoveRight} =>
           get_movement_input = [x |-> Unit, y |-> 0]
    /\ MoveActions \cap actions_active = {MoveLeft, MoveRight, MoveUp} =>
           get_movement_input = [x |-> 0, y |-> 0 - Unit]

\* C33 witness: W, A, S and D are all held and the four movement actions
\* active
C33_Witness ==
    /\ call.op = "update"
    /\ keys_pressed = MoveKeys
    /\ MoveActions \subseteq actions_active
    /\ get_movement_input = [x |-> 0, y |-> 0]
C35_PendingUntilNextUpdate ==
    [][ LET moved == entities \o entities_to_add
            kept(e) == e.id \in id_set(entities')
        IN  /\ call'.op = "add_entity" =>
                   /\ entities' = entities
                   /\ entities_to_add' = Append(entities_to_add, call'.list[1])
                   /\ call'.list[1].id \notin id_set(get_entities')
                   /\ call'.list[1].id \notin id_set(find_entities')
                   /\ find_first_entity' = find_first_entity
                   /\ draw_entities' = draw_entities
                   /\ entity_count' = entity_count + 1
            /\ call'.op \notin {"scene_update", "update_with_input"} =>
                   id_set(entities') \cap id_set(entities_to_add) = {}
            /\ call'.op \in {"scene_update", "update_with_input"} =>
                   /\ entities_to_add' = <<>>
                   /\ ids(entities') = ids(SelectSeq(moved, kept))
                   /\ \A i \in 1..Len(entities_to_add) :
                          entities_to_add[i].active =>
                              updated'[entities_to_add[i].id] = <<call'.dt>>
                   /\ ~should_clear_inactive =>
                          /\ ids(entities') =
                                 ids(entities) \o ids(entities_to_add)
                          /\ entity_count' = entity_count
                   /\ should_clear_inactive =>
                          entity_count' =
                              entity_count
                                  - Cardinality(id_set(moved)
                                                    \ id_set(entities')) ]_vars

\* C35 witness: a call of Scene::update found two pending entities behind a
\* live one, and the three are now the live list, the two at its end in the
\* order they were added, both updated with the dt of the call
C35_Witness ==
    /\ call.op = "scene_update"
    /\ Len(call.list) = 2
    /\ Len(entities) = 3
    /\ entities_to_add = <<>>
    /\ ids(SubSeq(entities, 2, 3)) = ids(call.list)
    /\ \A i \in 1..2 : updated[call.list[i].id] = <<call.dt>>
    /\ entity_count = 3
====
